---- MODULE Spec2Model ----
(***************************************************************************)
(* InstaWebhooks: the polling loop of src/instawebhooks/__main__.py.       *)
(*                                                                         *)
(* The program polls the post feed of one Instagram profile, decides       *)
(* which posts are new against a one-line checkpoint file                  *)
(* (.memory/last_post_<username>.txt) and sends them to a Discord webhook, *)
(* oldest first, rewriting the checkpoint after every send.                *)
(*                                                                         *)
(* Time is counted in whole units (one unit stands for a day, the unit of  *)
(* the 7-day cut-off).  A post's creation time is kept as its age, that is *)
(* datetime.now() - post.date, so that                                     *)
(*      post.date < now - timedelta(days=7)   is   age > 7                 *)
(*      post.date > now - refresh_interval    is   age < refresh_interval  *)
(*      post.date > now                       is   age < 0                 *)
(* Ages stop growing at MaxAge, beyond the 7-day cut-off.  Time passes in   *)
(* steps of one refresh interval (a sleep of main) or of one cut-off       *)
(* window, so that ages take the values on both sides of, and on, every    *)
(* threshold the code compares them against.                               *)
(* Posts are numbered 1, 2, ... in the order of their creation; the number *)
(* stands for the shortcode.                                               *)
(*                                                                         *)
(* Spec is main() running against the feed client, whose posts carry naive *)
(* dates.  FetchTests and MemoryTests are the functions of the module      *)
(* called directly, as src/tests call them: fetch_new_posts on any         *)
(* iterator of posts with any limit and either kind of date, and           *)
(* load_last_shortcode / save_last_shortcode on files of the earlier       *)
(* formats.                                                                *)
(* Restarts is main() stopped once between a send and the end of the      *)
(* checkpoint write that follows it, and started again; Messages is main() *)
(* started with a message text (Spec runs with the empty one).             *)
(***************************************************************************)
EXTENDS Integers, Sequences, FiniteSets, TLC

\* ------------------------------------------------------------- bounds ---
MaxPosts == 3        \* posts the profile publishes in one behaviour
MaxCatchup == 2      \* args.catchup ranges over 0..MaxCatchup
Refresh == 4         \* args.refresh_interval of the runs explored, in time units
MaxLimit == 2        \* limit of a direct call of fetch_new_posts ranges over 1..MaxLimit

\* -------------------------------------------------- program constants ---
SafetyWindowDays == 7    \* timedelta(days=7) in fetch_new_posts
DefaultLimit == 50       \* limit: int = 50 in fetch_new_posts
MemoryLimit == 100       \* len(memory["sent_posts"]) == 100 in test_memory_limit_100_posts

\* Ages saturate just beyond the cut-off.
MaxAge == SafetyWindowDays + 1

Ids == 1..MaxPosts

VARIABLES
    once, catchup, refresh_interval,  \* args.once, args.catchup, args.refresh_interval
    template,                         \* --message-content as given on the command line
    message_content,                  \* args.message_content
    age, live, pinned,                \* the profile: age of every post published, posts on line, pinned posts
    memfile,                          \* the checkpoint file
    pc,                               \* where main() is
    last_shortcode,                   \* check_for_new_posts: last_shortcode (<<>> is None)
    posts_to_send,                    \* check_for_new_posts: posts_to_send
    nsent,                            \* how far the loop over reversed(posts_to_send) is
    exc,                              \* the exception that left check_for_new_posts, "none" if none
    cyc,                              \* what the feed client did in the current cycle
    notified,                         \* posts handed to the webhook in the current cycle, in order
    sent,                             \* posts whose send has succeeded in this run
    lastSave,                         \* how the last checkpoint write of the cycle ended ("none": no write yet)
    posts_iterator,                   \* check_for_new_posts, fetch_new_posts: posts, the feed being walked
    tz,                               \* the kind of datetime post.date is: "naive" or "aware"
    limit_arg,                        \* fetch_new_posts: limit
    saved,                            \* a direct call of save_last_shortcode: shortcode (<<>>: no such call)
    stop                              \* where the process was stopped (NoStop: it never was)

vars == <<once, catchup, refresh_interval, template, message_content, age, live, pinned, memfile, pc,
          last_shortcode, posts_to_send, nsent, exc, cyc, notified, sent,
          lastSave, posts_iterator, tz, limit_arg, saved, stop>>

config == <<once, catchup, refresh_interval, template>>
profile == <<age, live, pinned>>

\* What a run of main never changes: the feed client's kind of dates, the
\* limit of fetch_new_posts (its default), the argument of a direct save and
\* the record of the process being stopped.
direct == <<tz, limit_arg, saved, stop>>

\* ------------------------------------------------------------ helpers ---
Min(a, b) == IF a < b THEN a ELSE b

Max(S) == CHOOSE x \in S : \A y \in S : y <= x

RECURSIVE SortDesc(_)
SortDesc(S) == IF S = {} THEN <<>> ELSE <<Max(S)>> \o SortDesc(S \ {Max(S)})

Reverse(s) == [i \in 1..Len(s) |-> s[Len(s) + 1 - i]]

IsPrefix(s, t) == Len(s) <= Len(t) /\ SubSeq(t, 1, Len(s)) = s

\* Exceptions of the feed client.
Transient == {"ConnectionException", "QueryReturnedBadRequestException"}
LoginRequired == "LoginRequiredException"
ProfileErrors == Transient \cup {"ProfileNotExistsException", LoginRequired}
WalkErrors == Transient \cup {LoginRequired}

NoCycle == [profile |-> "none", read |-> "none", raised |-> "none", at |-> 0]

\* ----------------------------------------------------------- the feed ---
\* Profile.get_posts(): the pinned posts first, then the others, each group
\* newest first.
Feed == SortDesc(pinned) \o SortDesc(live \ pinned)

\* post.date < cutoff_date, with cutoff_date = now - 7 days
\* A faulty variant: the cut-off is seven weeks back (the ages of the model
\* stop growing before that).
OlderThanCutoffWeeks(post) == age[post] > 7 * SafetyWindowDays

OlderThanCutoff(post) == age[post] > SafetyWindowDays

\* The kinds of datetime: one with no tzinfo and one with a tzinfo.
\* datetime.now() is naive, and so is the date of a post of the feed client
\* (instaloader's Post.date is its date_utc); the mock posts of
\* src/tests/test_timezone.py carry aware dates.  Comparing a naive with an
\* aware datetime raises TypeError.
DateKinds == {"naive", "aware"}
NowKind == "naive"
MixedKinds == tz # NowKind
TypeError == [kind |-> "TypeError", at |-> 0]

\* p.date > since, with since = now
AfterSince(post) == age[post] < 0

\* p.date > until, with until = now - refresh_interval
AfterUntil(post) == age[post] < refresh_interval

\* ---------------------------------------------------- checkpoint file ---
\* The text of the file is a sequence of tokens: the shortcode of a post
\* (its number, above 0) or one of the tokens below, which stand for text
\* that is no shortcode.  The file main writes holds one shortcode.
Whitespace == 0          \* a blank or a newline
JsonHead == 0 - 1        \* {"shortcode": "
JsonTail == 0 - 2        \* ", "timestamp": "2026-01-30T01:42:13"}
Undecodable == 0 - 3     \* bytes that are no UTF-8 text

NoFile == [exists |-> FALSE, content |-> <<>>]

\* stop when the process has not been stopped.
NoStop == [post |-> 0, at |-> "none", before |-> NoFile, sent |-> {}]

\* str.strip()
RECURSIVE LStrip(_)
LStrip(s) == IF s # <<>> /\ Head(s) = Whitespace THEN LStrip(Tail(s)) ELSE s

Strip(s) == Reverse(LStrip(Reverse(LStrip(s))))

\* load_last_shortcode: the stripped text of the file; None (<<>>) when the
\* file is absent, blank or unreadable.
load_last_shortcode(file, rd) ==
    IF file.exists
      THEN IF rd = "ok" THEN Strip(file.content) ELSE <<>>
      ELSE <<>>

\* load_last_shortcode: the exception that leaves the function.  The file is
\* opened with encoding="utf-8": f.read() raises UnicodeDecodeError on bytes
\* that are no UTF-8 text, and that is a ValueError, which "except IOError"
\* does not catch.
Tokens(file) == {file.content[i] : i \in 1..Len(file.content)}

LoadRaises(file, rd) ==
    IF file.exists /\ rd = "ok" /\ Undecodable \in Tokens(file)
      THEN "UnicodeDecodeError"
      ELSE "none"

\* save_last_shortcode: open(path, "w") truncates, then the shortcode is
\* written.  An IOError is logged and swallowed: raised by open() it leaves
\* the file as it was, raised by the write it leaves the file empty.
\* A faulty variant: the write succeeds but the old content stays.
save_last_shortcode_stale(file, shortcode, wr) ==
    CASE wr = "ok" -> [exists |-> TRUE, content |-> file.content]
      [] wr = "open_failed" -> file
      [] wr = "write_failed" -> [exists |-> TRUE, content |-> <<>>]

\* A faulty variant: the file is opened with "a", not "w".
save_last_shortcode_appends(file, shortcode, wr) ==
    CASE wr = "ok" -> [exists |-> TRUE, content |-> file.content \o <<shortcode>>]
      [] wr = "open_failed" -> file
      [] wr = "write_failed" -> [exists |-> TRUE, content |-> <<>>]

save_last_shortcode(file, shortcode, wr) ==
    CASE wr = "ok" -> [exists |-> TRUE, content |-> <<shortcode>>]
      [] wr = "open_failed" -> file
      [] wr = "write_failed" -> [exists |-> TRUE, content |-> <<>>]

\* save_last_shortcode, lines 153-157: the exception that leaves the function
\* when the write ends as wr.  There is none: the IOError is caught.
\* A faulty variant: the IOError is not caught.
SaveRaisesIOError(wr) == IF wr = "ok" THEN "none" ELSE "IOError"

SaveRaises(wr) == "none"

\* save_last_shortcode cut short because the process ends (KeyboardInterrupt,
\* a signal, a power cut): before open(path, "w"); after it, when the file
\* has been truncated and the shortcode is not in it yet (f.write fills a
\* buffer, which reaches the file when the file is closed); or after the
\* file has been closed.
StopPoints == {"before_open", "after_open", "after_close"}

save_last_shortcode_stopped(file, shortcode, at) ==
    CASE at = "before_open" -> file
      [] at = "after_open" -> [exists |-> TRUE, content |-> <<>>]
      [] at = "after_close" -> [exists |-> TRUE, content |-> <<shortcode>>]

\* -------------------------------------------------------- the message ---
\* The text of a message is a sequence of pieces: a piece of plain text, a
\* placeholder ("{post_url}", ...), or the value a placeholder stands for.
\* The values of the owner's placeholders are those of the profile, the
\* same for all its posts (post 0 stands for the profile); the others are
\* the post's own.  Values are texts that hold no placeholder.
OwnerPlaceholders == {"owner_url", "owner_name", "owner_username"}
PostPlaceholders == {"post_url", "post_caption", "post_shortcode", "post_image_url"}
Placeholders == OwnerPlaceholders \cup PostPlaceholders

Text == [kind |-> "text", name |-> "", post |-> 0]
Placeholder(name) == [kind |-> "placeholder", name |-> name, post |-> 0]
Value(name, post) ==
    [kind |-> "value", name |-> name, post |-> IF name \in OwnerPlaceholders THEN 0 ELSE post]

\* format_message: str.replace(placeholder, value) for every placeholder of
\* the dictionary; the result is what args.message_content becomes.
format_message(content, post) ==
    [i \in 1..Len(content) |->
        IF content[i].kind = "placeholder" /\ content[i].name \in Placeholders
          THEN Value(content[i].name, post)
          ELSE content[i]]

\* send_to_discord, lines 235-248: what args.message_content is after the
\* call, which is the content webhook.send is given.
send_to_discord(content, post) ==
    IF content # <<>> THEN format_message(content, post) ELSE content

\* ------------------------------------------------------ walking the feed ---
\* The feed is a lazy iterator.  err = [kind, at]: the iterator yields its
\* first err.at items and raises err.kind when asked for the next one
\* (kind "none": it never raises).  A walk returns what it gathered and the
\* exception that ended it (raised: it leaves the walk; logged: it was
\* swallowed), "none" if there is none.
Gathered(acc) == [posts_to_send |-> acc, raised |-> "none", logged |-> "none"]
Raised(acc, err) == [posts_to_send |-> acc, raised |-> err.kind, logged |-> "none"]
Raises(err, i) == err.kind # "none" /\ i = err.at + 1

\* fetch_new_posts, the body of "for post in posts".
RECURSIVE ResumeWalk(_, _, _, _, _, _)
ResumeWalk(posts, last, limit, err, i, acc) ==
    IF Raises(err, i) THEN Raised(acc, err)
    ELSE IF i > Len(posts) THEN Gathered(acc)
    ELSE IF MixedKinds THEN Raised(acc, TypeError)
    ELSE IF OlderThanCutoff(posts[i]) THEN Gathered(acc)
    ELSE IF <<posts[i]>> = last THEN Gathered(acc)
    ELSE IF posts[i] \in pinned THEN ResumeWalk(posts, last, limit, err, i + 1, acc)
    ELSE IF Len(acc) + 1 >= limit THEN Gathered(Append(acc, posts[i]))
    ELSE ResumeWalk(posts, last, limit, err, i + 1, Append(acc, posts[i]))

\* fetch_new_posts: a ConnectionException or QueryReturnedBadRequestException
\* ends the walk, is logged and swallowed; anything else leaves the function.
\* A faulty variant: the posts gathered before the error are dropped.
CaughtInFetchLosesBatch(w) ==
    IF w.raised \in Transient
      THEN [posts_to_send |-> <<>>, raised |-> "none", logged |-> w.raised]
      ELSE w

CaughtInFetch(w) ==
    IF w.raised \in Transient
      THEN [posts_to_send |-> w.posts_to_send, raised |-> "none", logged |-> w.raised]
      ELSE w

\* A faulty variant: the cap is tested with count > limit.
fetch_new_posts_over_limit(posts, last, limit, err) ==
    CaughtInFetch(ResumeWalk(posts, last, limit + 1, err, 1, <<>>))

\* A faulty variant: the walk does not stop at the checkpoint.
fetch_new_posts_past_checkpoint(posts, last, limit, err) ==
    CaughtInFetch(ResumeWalk(posts, <<>>, limit, err, 1, <<>>))

fetch_new_posts(posts, last, limit, err) ==
    CaughtInFetch(ResumeWalk(posts, last, limit, err, 1, <<>>))

\* takewhile(lambda _: catchup > 0, posts): takewhile takes the next item of
\* the feed first and asks the predicate afterwards.
\* A faulty variant: pinned posts are skipped, as the resume walk does.
RECURSIVE CatchupWalkSkipsPinned(_, _, _, _, _)
CatchupWalkSkipsPinned(posts, n, err, i, acc) ==
    IF Raises(err, i) THEN Raised(acc, err)
    ELSE IF i > Len(posts) THEN Gathered(acc)
    ELSE IF n <= 0 THEN Gathered(acc)
    ELSE IF posts[i] \in pinned THEN CatchupWalkSkipsPinned(posts, n, err, i + 1, acc)
    ELSE CatchupWalkSkipsPinned(posts, n - 1, err, i + 1, Append(acc, posts[i]))

RECURSIVE CatchupWalk(_, _, _, _, _)
CatchupWalk(posts, n, err, i, acc) ==
    IF Raises(err, i) THEN Raised(acc, err)
    ELSE IF i > Len(posts) THEN Gathered(acc)
    ELSE IF n > 0 THEN CatchupWalk(posts, n - 1, err, i + 1, Append(acc, posts[i]))
    ELSE Gathered(acc)

\* dropwhile(lambda p: p.date > since, posts): the index of the first item kept.
RECURSIVE DropWhile(_, _, _)
DropWhile(posts, err, i) ==
    IF Raises(err, i) \/ i > Len(posts) \/ MixedKinds THEN i
    ELSE IF AfterSince(posts[i]) THEN DropWhile(posts, err, i + 1)
    ELSE i

\* takewhile(lambda p: p.date > until, ...)
RECURSIVE FreshWalk(_, _, _, _)
FreshWalk(posts, err, i, acc) ==
    IF Raises(err, i) THEN Raised(acc, err)
    ELSE IF i > Len(posts) THEN Gathered(acc)
    ELSE IF MixedKinds THEN Raised(acc, TypeError)
    ELSE IF AfterUntil(posts[i]) THEN FreshWalk(posts, err, i + 1, Append(acc, posts[i]))
    ELSE Gathered(acc)

\* check_for_new_posts, lines 324-343: the batch of the cycle.
NewPosts(posts, last, err) ==
    IF last # <<>> THEN fetch_new_posts(posts, last, DefaultLimit, err)
    ELSE IF catchup > 0 THEN CatchupWalk(posts, catchup, err, 1, <<>>)
    ELSE FreshWalk(posts, err, DropWhile(posts, err, 1), <<>>)

\* --------------------------------------------------------- the program ---
Init ==
    /\ once \in BOOLEAN
    /\ catchup \in {0, MaxCatchup}
    /\ refresh_interval = Refresh
    /\ template = <<>>
    /\ message_content = template
    /\ age = <<>>
    /\ live = {}
    /\ pinned = {}
    /\ memfile = NoFile
    /\ pc = "start"
    /\ last_shortcode = <<>>
    /\ posts_to_send = <<>>
    /\ nsent = 0
    /\ exc = "none"
    /\ cyc = NoCycle
    /\ notified = <<>>
    /\ lastSave = "none"
    /\ sent = {}
    /\ posts_iterator = <<>>
    /\ tz = "naive"
    /\ limit_arg = DefaultLimit
    /\ saved = <<>>
    /\ stop = NoStop

\* main, lines 373-377: check_for_new_posts has returned.
\* A faulty variant: args.once is not looked at.
AfterCycleSleeps == "sleep"

AfterCycle == IF once THEN "exit" ELSE "sleep"

\* main, lines 378-385: an exception has left check_for_new_posts.  A
\* LoginRequiredException becomes SystemExit("Not logged in..."); any other
\* one is not handled and ends the process with a traceback.
OnException(e) == IF e = LoginRequired THEN "fatal" ELSE "crash"

\* check_for_new_posts, lines 307-322: Profile.from_username(...).get_posts()
\* raises; the error is logged and the cycle returns.
\* A faulty variant: the error of the feed handle is not caught.
OnProfileErrorUncaught(e) == OnException(e)

OnProfileError(e) == AfterCycle

ProfileError ==
    /\ pc = "start"
    /\ \E e \in ProfileErrors :
        /\ pc' = OnProfileError(e)
        /\ cyc' = [NoCycle EXCEPT !.profile = e]
    /\ UNCHANGED <<config, direct, profile, memfile, last_shortcode, posts_to_send, nsent,
                   exc, notified, lastSave, sent, posts_iterator, message_content>>

\* check_for_new_posts, lines 307-347: the feed handle is obtained, the
\* checkpoint is loaded and the feed is walked.  reads: how reading the
\* checkpoint file may end; kinds: what the feed may raise.
CheckWith(reads, kinds) ==
    /\ pc = "start"
    /\ \E rd \in reads, kind \in kinds, at \in 0..Len(Feed) :
        LET e == LoadRaises(memfile, rd)
            last == IF e = "none" THEN load_last_shortcode(memfile, rd) ELSE <<>>
            r == IF e = "none"
                   THEN NewPosts(Feed, last, [kind |-> kind, at |-> at])
                   ELSE Raised(<<>>, [kind |-> e, at |-> 0])
        IN  /\ kind = "none" => at = 0
            /\ rd # "ok" => memfile.exists
            /\ exc' = r.raised
            /\ pc' = IF r.raised # "none" THEN OnException(r.raised)
                     ELSE IF r.posts_to_send = <<>> THEN AfterCycle
                     ELSE "send"
            /\ posts_iterator' = Feed
            /\ last_shortcode' = last
            /\ posts_to_send' = r.posts_to_send
            /\ cyc' = [profile |-> "ok",
                       read |-> rd,
                       raised |-> IF r.raised # "none" THEN r.raised ELSE r.logged,
                       at |-> IF r.logged # "none" THEN at ELSE 0]
    /\ UNCHANGED <<config, direct, profile, memfile, nsent, notified, lastSave, sent,
                   message_content>>

CheckForNewPosts == CheckWith({"ok", "IOError"}, WalkErrors \cup {"none"})

\* check_for_new_posts, lines 354-358: one turn of the loop over
\* reversed(posts_to_send).  The checkpoint is written only after
\* send_to_discord has returned; an exception of the send leaves the loop.
\* A faulty variant: the checkpoint is written whether the send succeeded or not.
CheckpointedBeforeSend(file, post, sendOk, wr) ==
    save_last_shortcode(file, post, wr)

Checkpointed(file, post, sendOk, wr) ==
    IF sendOk THEN save_last_shortcode(file, post, wr) ELSE file

\* sends: how a send may end; writes: how writing the checkpoint may end.
SendWith(sends, writes) ==
    /\ pc = "send"
    /\ nsent < Len(posts_to_send)
    /\ LET post == Reverse(posts_to_send)[nsent + 1] IN
       \E sendOk \in sends, wr \in writes :
        /\ ~sendOk => wr = "ok"
        /\ notified' = Append(notified, post)
        /\ message_content' = send_to_discord(message_content, post)
        /\ memfile' = Checkpointed(memfile, post, sendOk, wr)
        /\ IF sendOk
             THEN /\ sent' = sent \cup {post}
                  /\ lastSave' = wr
                  /\ exc' = IF SaveRaises(wr) # "none" THEN SaveRaises(wr) ELSE exc
                  /\ pc' = IF SaveRaises(wr) # "none" THEN OnException(SaveRaises(wr))
                           ELSE IF nsent + 1 = Len(posts_to_send) THEN AfterCycle
                           ELSE "send"
                  /\ nsent' = nsent + 1
             ELSE /\ exc' = "SendError"
                  /\ pc' = OnException("SendError")
                  /\ UNCHANGED <<nsent, lastSave, sent>>
    /\ UNCHANGED <<config, direct, profile, last_shortcode, posts_to_send, cyc, posts_iterator>>

SendPost == SendWith(BOOLEAN, {"ok", "open_failed", "write_failed"})

\* Time passes: every post grows older by d units.
Older(d) == [p \in DOMAIN age |-> Min(age[p] + d, MaxAge)]

\* main, line 377: sleep(args.refresh_interval), then the next cycle begins
\* (the locals of the cycle that has returned are gone).
Sleep ==
    /\ pc = "sleep"
    /\ pc' = "start"
    /\ age' = Older(refresh_interval)
    /\ last_shortcode' = <<>>
    /\ posts_to_send' = <<>>
    /\ nsent' = 0
    /\ cyc' = NoCycle
    /\ notified' = <<>>
    /\ lastSave' = "none"
    /\ posts_iterator' = <<>>
    /\ UNCHANGED <<config, direct, live, pinned, memfile, exc, sent, message_content>>

\* ----------------------------------------------------- the environment ---
\* The profile changes and time passes between two walks of the feed.  (The
\* sends of a cycle do not read the profile, so a change during the sends
\* is a change before the next walk.)
Between == pc = "start"

process == <<memfile, pc, last_shortcode, posts_to_send, nsent, exc, cyc,
             notified, lastSave, sent, posts_iterator, message_content>>

\* The owner publishes a post.
NewPost ==
    /\ Between
    /\ Len(age) < MaxPosts
    /\ age' = Append(age, 0)
    /\ live' = live \cup {Len(age) + 1}
    /\ UNCHANGED <<config, direct, pinned, process>>

\* The owner deletes a post.  (The feed never yields it again, so its age
\* no longer matters: it is kept at the greatest one.)
DeletePost ==
    /\ Between
    /\ \E p \in live :
        /\ live' = live \ {p}
        /\ pinned' = pinned \ {p}
        /\ age' = [age EXCEPT ![p] = MaxAge]
    /\ UNCHANGED <<config, direct, process>>

\* The owner pins a post to the top of the profile.
PinPost ==
    /\ Between
    /\ \E p \in live \ pinned : pinned' = pinned \cup {p}
    /\ UNCHANGED <<config, direct, age, live, process>>

\* The owner unpins a post.
UnpinPost ==
    /\ Between
    /\ \E p \in pinned : pinned' = pinned \ {p}
    /\ UNCHANGED <<config, direct, age, live, process>>

\* Time passes without a poll (a slow fetch, a suspended machine).
Tick ==
    /\ Between
    /\ \E d \in {refresh_interval, SafetyWindowDays} : age' = Older(d)
    /\ age' # age
    /\ UNCHANGED <<config, direct, live, pinned, process>>

Next ==
    \/ ProfileError
    \/ CheckForNewPosts
    \/ SendPost
    \/ Sleep
    \/ NewPost
    \/ DeletePost
    \/ PinPost
    \/ UnpinPost
    \/ Tick

Spec == Init /\ [][Next]_vars

\* The same program with collaborators that never fail: the feed never
\* raises, the checkpoint file is always read and written, every send
\* succeeds.  Every behaviour of Reliable is a behaviour of Spec.
CheckForNewPostsOk == CheckWith({"ok"}, {"none"})
SendPostOk == SendWith({TRUE}, {"ok"})

NextReliable ==
    \/ CheckForNewPostsOk
    \/ SendPostOk
    \/ Sleep
    \/ NewPost
    \/ DeletePost
    \/ PinPost
    \/ UnpinPost
    \/ Tick

Reliable == Init /\ [][NextReliable]_vars

\* Moreover main is never late and never held up: time passes only in its
\* sleep, and a cycle, a send and a sleep that can be made are made.  Every
\* behaviour of Punctual is a behaviour of Reliable.
NextPunctual ==
    \/ CheckForNewPostsOk
    \/ SendPostOk
    \/ Sleep
    \/ NewPost
    \/ DeletePost
    \/ PinPost
    \/ UnpinPost

Punctual ==
    /\ Init
    /\ [][NextPunctual]_vars
    /\ WF_vars(CheckForNewPostsOk)
    /\ WF_vars(SendPostOk)
    /\ WF_vars(Sleep)

\* ------------------------------------------- runs with a message text ---
\* The program with collaborators that never fail, started with
\* --message-content: a plain text, or a text with one placeholder.
Templates == {<<Text>>} \cup {<<Text, Placeholder(name), Text>> : name \in Placeholders}

InitMessages ==
    /\ once \in BOOLEAN
    /\ catchup \in {0, MaxCatchup}
    /\ refresh_interval = Refresh
    /\ template \in Templates
    /\ message_content = template
    /\ age = <<>>
    /\ live = {}
    /\ pinned = {}
    /\ memfile = NoFile
    /\ pc = "start"
    /\ last_shortcode = <<>>
    /\ posts_to_send = <<>>
    /\ nsent = 0
    /\ exc = "none"
    /\ cyc = NoCycle
    /\ notified = <<>>
    /\ lastSave = "none"
    /\ sent = {}
    /\ posts_iterator = <<>>
    /\ tz = "naive"
    /\ limit_arg = DefaultLimit
    /\ saved = <<>>
    /\ stop = NoStop

Messages == InitMessages /\ [][NextReliable]_vars

\* ------------------------------------------------- stop and restart ---
\* The process ends in a turn of the loop over reversed(posts_to_send),
\* lines 354-358, after send_to_discord has returned: before or within
\* save_last_shortcode.  stop keeps the post just sent, the point of the
\* stop, the file as it was before that turn and the posts sent before it.
StopInSend ==
    /\ pc = "send"
    /\ nsent < Len(posts_to_send)
    /\ stop = NoStop
    /\ LET post == Reverse(posts_to_send)[nsent + 1] IN
       \E at \in StopPoints :
        /\ notified' = Append(notified, post)
        /\ message_content' = send_to_discord(message_content, post)
        /\ sent' = sent \cup {post}
        /\ memfile' = save_last_shortcode_stopped(memfile, post, at)
        /\ stop' = [post |-> post, at |-> at, before |-> memfile, sent |-> sent]
    /\ pc' = "stopped"
    /\ UNCHANGED <<config, tz, limit_arg, saved, profile, last_shortcode, posts_to_send,
                   nsent, exc, cyc, lastSave, posts_iterator>>

\* The program is started again: main begins with its arguments as they
\* were given and nothing but the file.
Restart ==
    /\ pc = "stopped"
    /\ pc' = "start"
    /\ message_content' = template
    /\ last_shortcode' = <<>>
    /\ posts_to_send' = <<>>
    /\ nsent' = 0
    /\ exc' = "none"
    /\ cyc' = NoCycle
    /\ notified' = <<>>
    /\ lastSave' = "none"
    /\ posts_iterator' = <<>>
    /\ UNCHANGED <<config, direct, profile, memfile, sent>>

\* The owner changes the profile only while the process has not been
\* stopped: a restart finds the feed as the stop left it.  Time passes as
\* it always does.
Unstopped == stop = NoStop

NewPostUnstopped == Unstopped /\ NewPost
DeletePostUnstopped == Unstopped /\ DeletePost
PinPostUnstopped == Unstopped /\ PinPost
UnpinPostUnstopped == Unstopped /\ UnpinPost

\* The program with collaborators that never fail, stopped once and started
\* again.
NextRestarts ==
    \/ CheckForNewPostsOk
    \/ SendPostOk
    \/ Sleep
    \/ StopInSend
    \/ Restart
    \/ NewPostUnstopped
    \/ DeletePostUnstopped
    \/ PinPostUnstopped
    \/ UnpinPostUnstopped
    \/ Tick

Restarts == Init /\ [][NextRestarts]_vars

\* --------------------------------------- fetch_new_posts, called directly ---
\* src/tests/test_timezone.py calls fetch_new_posts(posts_iterator,
\* last_shortcode, posts_to_send, limit=...) on an iterator of mock posts:
\* posts in any order, of any age, pinned or not, with dates of either kind.
Orderings(S) ==
    {s \in [1..Cardinality(S) -> S] : \A i, j \in DOMAIN s : i # j => s[i] # s[j]}

Iterators == UNION {Orderings(S) : S \in SUBSET Ids}

InitFetchTests ==
    /\ once = TRUE
    /\ catchup = 0
    /\ refresh_interval = Refresh
    /\ template = <<>>
    /\ message_content = template
    /\ age \in [Ids -> {0, MaxAge}]
    /\ live = Ids
    /\ pinned \in SUBSET Ids
    /\ tz \in DateKinds
    /\ posts_iterator \in Iterators
    /\ limit_arg \in 1..MaxLimit
    /\ memfile = NoFile
    /\ pc = "test"
    /\ last_shortcode = <<>>
    /\ posts_to_send = <<>>
    /\ nsent = 0
    /\ exc = "none"
    /\ cyc = NoCycle
    /\ notified = <<>>
    /\ lastSave = "none"
    /\ sent = {}
    /\ saved = <<>>
    /\ stop = NoStop

\* One call; the checkpoint passed is no post's shortcode (<<>>) or a post's.
FetchCall ==
    /\ pc = "test"
    /\ \E last \in {<<>>} \cup {<<p>> : p \in Ids},
          kind \in Transient \cup {"none"}, at \in 0..Len(posts_iterator) :
        LET r == fetch_new_posts(posts_iterator, last, limit_arg, [kind |-> kind, at |-> at])
        IN  /\ kind = "none" => at = 0
            /\ last_shortcode' = last
            /\ posts_to_send' = r.posts_to_send
            /\ exc' = r.raised
            /\ cyc' = [profile |-> "ok",
                       read |-> "none",
                       raised |-> IF r.raised # "none" THEN r.raised ELSE r.logged,
                       at |-> IF r.logged # "none" THEN at ELSE 0]
            /\ pc' = IF r.raised # "none" THEN "raised" ELSE "returned"
    /\ UNCHANGED <<config, direct, profile, memfile, nsent, notified, lastSave, sent,
                   posts_iterator, message_content>>

NextFetchTests == FetchCall

FetchTests == InitFetchTests /\ [][NextFetchTests]_vars

\* ------------------------- the checkpoint functions, called directly ---
\* src/tests/test_memory.py writes a file of an earlier format at
\* get_memory_path(username) and loads it, or saves and then loads.  The
\* files: none, an empty or blank one, a bare shortcode (with or without a
\* final newline), the legacy JSON object {shortcode, timestamp}; and a
\* file that is no text.
TextFile(text) == [exists |-> TRUE, content |-> text]

TestFiles ==
    {NoFile, TextFile(<<>>), TextFile(<<Whitespace>>), TextFile(<<Undecodable>>)}
    \cup {TextFile(<<p>>) : p \in Ids}
    \cup {TextFile(<<p, Whitespace>>) : p \in Ids}
    \cup {TextFile(<<JsonHead, p, JsonTail>>) : p \in Ids}

InitMemoryTests ==
    /\ once = TRUE
    /\ catchup = 0
    /\ refresh_interval = Refresh
    /\ template = <<>>
    /\ message_content = template
    /\ age = [p \in Ids |-> 0]
    /\ live = Ids
    /\ pinned = {}
    /\ tz = "naive"
    /\ posts_iterator = <<>>
    /\ limit_arg = DefaultLimit
    /\ memfile \in TestFiles
    /\ pc = "test"
    /\ last_shortcode = <<>>
    /\ posts_to_send = <<>>
    /\ nsent = 0
    /\ exc = "none"
    /\ cyc = NoCycle
    /\ notified = <<>>
    /\ lastSave = "none"
    /\ sent = {}
    /\ saved = <<>>
    /\ stop = NoStop

\* save_last_shortcode(username, shortcode)
SaveCall ==
    /\ pc = "test"
    /\ saved = <<>>
    /\ \E p \in Ids, wr \in {"ok", "open_failed", "write_failed"} :
        /\ memfile' = save_last_shortcode(memfile, p, wr)
        /\ saved' = <<p>>
        /\ lastSave' = wr
    /\ UNCHANGED <<config, profile, tz, limit_arg, stop, pc, last_shortcode,
                   posts_to_send, nsent, exc, cyc, notified, sent, posts_iterator,
                   message_content>>

\* load_last_shortcode(username)
LoadCall ==
    /\ pc = "test"
    /\ \E rd \in {"ok", "IOError"} :
        LET e == LoadRaises(memfile, rd)
        IN  /\ rd # "ok" => memfile.exists
            /\ last_shortcode' = IF e = "none" THEN load_last_shortcode(memfile, rd) ELSE <<>>
            /\ exc' = e
            /\ pc' = IF e = "none" THEN "loaded" ELSE "raised"
            /\ cyc' = [NoCycle EXCEPT !.read = rd]
    /\ UNCHANGED <<config, direct, profile, memfile, posts_to_send, nsent,
                   notified, lastSave, sent, posts_iterator, message_content>>

\* check_for_new_posts, lines 327-329: the resume walk with what was loaded,
\* on a feed that raises nothing.
FetchLoaded ==
    /\ pc = "loaded"
    /\ last_shortcode # <<>>
    /\ \E it \in Iterators :
        LET r == fetch_new_posts(it, last_shortcode, limit_arg, [kind |-> "none", at |-> 0])
        IN  /\ posts_iterator' = it
            /\ posts_to_send' = r.posts_to_send
            /\ exc' = r.raised
    /\ pc' = "returned"
    /\ UNCHANGED <<config, direct, profile, memfile, last_shortcode, nsent, cyc,
                   notified, lastSave, sent, message_content>>

NextMemoryTests ==
    \/ SaveCall
    \/ LoadCall
    \/ FetchLoaded

MemoryTests == InitMemoryTests /\ [][NextMemoryTests]_vars

TypeOK ==
    /\ pc \in {"start", "send", "sleep", "exit", "fatal", "crash"}
    /\ live \subseteq DOMAIN age
    /\ pinned \subseteq live
    /\ nsent \in 0..Len(posts_to_send)
    /\ \A p \in DOMAIN age : age[p] \in 0..MaxAge

\* ---------------------------------------------------------- the claims ---
\* A walk of the feed has been made in the current cycle; until main sleeps
\* the profile is as the walk saw it.
Walked == cyc.profile = "ok"
Returned == pc \in {"sleep", "exit"}
NotPinned(p) == p \notin pinned
Chronological(s) == \A i, j \in 1..Len(s) : i < j => s[i] < s[j]

\* C1.  The feed was walked in resume mode without an error, and the
\* checkpointed post is the (k+1)-th item of the feed, after k items that
\* are not pinned and not older than the cut-off (k below the cap).
ResumeCase(k) ==
    /\ Walked
    /\ cyc.raised = "none"
    /\ last_shortcode # <<>>
    /\ k < DefaultLimit
    /\ k + 1 <= Len(Feed)
    /\ <<Feed[k + 1]>> = last_shortcode
    /\ \A i \in 1..k : NotPinned(Feed[i]) /\ ~OlderThanCutoff(Feed[i])

\* C1: in resume mode, when the checkpointed post follows k newer posts
\* that are not pinned and within the 7-day window, the batch is exactly
\* those k posts, and they are handed to the webhook oldest first (all of
\* them once the cycle has returned).
C1_ResumeBatch ==
    \A k \in 0..MaxPosts :
        ResumeCase(k) =>
            /\ posts_to_send = SubSeq(Feed, 1, k)
            /\ IsPrefix(notified, Reverse(SubSeq(Feed, 1, k)))
            /\ Chronological(notified)
            /\ Returned => notified = Reverse(SubSeq(Feed, 1, k))

C1_Witness ==
    /\ ResumeCase(2)
    /\ pc = "sleep"
    /\ notified = <<Feed[2], Feed[1]>>

\* C2: no post is sent to the webhook twice (stated for collaborators that
\* never fail: no send of the run is followed by a crash, a restart or a
\* failed checkpoint write).
C2_NoDuplicate ==
    [][nsent' = nsent + 1 => Reverse(posts_to_send)[nsent + 1] \notin sent]_vars

\* C3: a post that is in the feed and newer than the checkpointed post is
\* eventually sent.  It is stated for the most favourable case: main polls
\* for ever and on time, no collaborator ever fails, the post is not pinned
\* and within the 7-day window when it appears, and it neither leaves the
\* feed nor gets pinned before it is sent.
NewerThanCheckpoint(p) ==
    /\ ~once
    /\ p \in live
    /\ memfile.content # <<>>
    /\ p > memfile.content[1]
    /\ NotPinned(p)
    /\ ~OlderThanCutoff(p)

C3_AtLeastOnce ==
    \A p \in Ids :
        NewerThanCheckpoint(p) ~> (p \in sent \/ p \notin live \/ p \in pinned)

\* C4 as claimed: once a send of a cycle has succeeded, so whenever the
\* next send starts, the checkpoint is the post sent last.
C4_CheckpointIsLastSent ==
    nsent > 0 => memfile.content = <<notified[nsent]>>

\* C4, amended: the checkpoint is never a post whose send has not
\* succeeded; and after a send whose checkpoint write succeeded, so when
\* the next send starts, the checkpoint is the post sent last.  (A write
\* that fails is logged and the loop goes on with the old or an empty file.)
C4_CheckpointAfterSend ==
    /\ memfile.content # <<>> => memfile.content[1] \in sent
    /\ nsent > 0 /\ lastSave = "ok" => memfile.content = <<notified[nsent]>>

C4_Witness ==
    /\ pc = "send"
    /\ nsent = 1
    /\ lastSave = "ok"
    /\ memfile.content = <<notified[1]>>
    /\ last_shortcode # <<>>

\* C5: the posts of a cycle are sent in non-decreasing order of creation
\* time (an older post has the greater age).
C5_ChronologicalSends ==
    \A i, j \in 1..Len(notified) : i < j => age[notified[i]] >= age[notified[j]]

\* C6: a send that fails leaves the checkpoint file exactly as it was
\* before that send, so the post that could not be sent does not become the
\* checkpoint (it is the checkpoint only if an earlier send of it succeeded).
FailedPost == notified[Len(notified)]

C6_FailedSendNotCheckpointed ==
    [][exc = "none" /\ exc' = "SendError" =>
          /\ memfile' = memfile
          /\ sent' = sent
          /\ FailedPost' \notin sent => memfile'.content # <<FailedPost'>>]_vars

C6_Witness ==
    /\ exc = "SendError"
    /\ nsent = 1
    /\ Len(notified) = 2
    /\ memfile.content = <<notified[1]>>

\* C7: a send that fails does not end the process: main goes on.
C7_SendFailureNotFatal ==
    exc = "SendError" => pc \in {"start", "send", "sleep"}

\* C8: in resume mode a transient error of the feed, raised after the feed
\* has yielded cyc.at items, does not leave fetch_new_posts; the batch is
\* the posts accepted among those items; they are sent oldest first and
\* the cycle returns only when all of them are sent, the newest of them
\* being the checkpoint then (if its write succeeded).
C8_TransientErrorKeepsBatch ==
    Walked /\ cyc.raised \in Transient /\ last_shortcode # <<>> =>
        /\ exc \notin Transient
        /\ posts_to_send = SelectSeq(SubSeq(Feed, 1, cyc.at), NotPinned)
        /\ IsPrefix(notified, Reverse(posts_to_send))
        /\ Returned => notified = Reverse(posts_to_send)
        /\ Returned /\ posts_to_send # <<>> /\ lastSave = "ok" =>
               memfile.content = <<posts_to_send[1]>>

C8_Witness ==
    /\ Walked
    /\ cyc.raised \in Transient
    /\ last_shortcode # <<>>
    /\ cyc.at = 2
    /\ Len(posts_to_send) = 2
    /\ pc = "sleep"
    /\ notified = Reverse(posts_to_send)
    /\ memfile.content = <<posts_to_send[1]>>

\* C9: when obtaining the feed handle fails (profile not found, connection
\* failure, bad request), the cycle returns as any cycle does, nothing is
\* sent and the checkpoint file is untouched; the sleep that follows leaves
\* it untouched too, so the next cycle loads the same checkpoint.
HandleFailures == Transient \cup {"ProfileNotExistsException"}

C9_HandleFailureSkipsCycle ==
    [][/\ pc = "start" /\ cyc'.profile \in HandleFailures =>
            /\ memfile' = memfile
            /\ sent' = sent
            /\ notified' = <<>>
            /\ posts_to_send' = <<>>
            /\ pc' = AfterCycle
       /\ pc = "sleep" => memfile' = memfile /\ pc' = "start"]_vars

C9_Witness ==
    /\ cyc.profile = "ProfileNotExistsException"
    /\ pc = "sleep"
    /\ memfile.content # <<>>
    /\ notified = <<>>

\* C10: a login-required condition, raised while the feed handle is
\* obtained or while the feed is walked, ends the process with the error
\* exit.
C10_LoginRequiredFatal ==
    cyc.profile = LoginRequired \/ cyc.raised = LoginRequired => pc = "fatal"

\* C11.  The feed was walked in resume mode and raised nothing; its j-th
\* item is the first one created more than 7 days ago, and the checkpointed
\* post is not among the j-1 items before it.
CreatedWithinWindow(p) == age[p] <= SafetyWindowDays
Accepted == {posts_to_send[i] : i \in 1..Len(posts_to_send)}

CutoffCase(j) ==
    /\ Walked
    /\ cyc.raised = "none"
    /\ last_shortcode # <<>>
    /\ j <= Len(posts_iterator)
    /\ j <= DefaultLimit
    /\ ~CreatedWithinWindow(posts_iterator[j])
    /\ \A i \in 1..(j - 1) :
          /\ CreatedWithinWindow(posts_iterator[i])
          /\ <<posts_iterator[i]>> # last_shortcode

Called == pc \in {"returned", "raised"}

RECURSIVE StopsAt(_, _)
StopsAt(s, i) ==
    IF i > Len(s) THEN i
    ELSE IF ~CreatedWithinWindow(s[i]) \/ <<s[i]>> = last_shortcode THEN i
    ELSE StopsAt(s, i + 1)

Candidates == SelectSeq(SubSeq(posts_iterator, 1, StopsAt(posts_iterator, 1) - 1), NotPinned)

\* C12: the batch of a resume walk never holds more than limit posts and
\* never a pinned one; pinned posts are not counted: when limit or more
\* candidates precede the stop, the batch is exactly the first limit of
\* them, and all of them otherwise.
C12_Cap ==
    Called =>
        /\ Len(posts_to_send) <= limit_arg
        /\ \A p \in Accepted : NotPinned(p)
        /\ cyc.raised = "none" =>
               posts_to_send = SubSeq(Candidates, 1, Min(limit_arg, Len(Candidates)))

C12_Witness ==
    /\ pc = "returned"
    /\ cyc.raised = "none"
    /\ Len(Candidates) > limit_arg
    /\ Len(posts_to_send) = limit_arg
    /\ posts_iterator[1] \in pinned

\* C13: in resume mode the batch is the batch the same walk returns for
\* the feed with its pinned posts removed (so a pinned post never ends the
\* walk).  Stated for a feed that raises nothing and a checkpointed post
\* that is not pinned.
Unpinned(s) == SelectSeq(s, NotPinned)
NoError == [kind |-> "none", at |-> 0]

C13_PinnedDoNotBlock ==
    Walked /\ last_shortcode # <<>> /\ last_shortcode[1] \notin pinned =>
        posts_to_send =
            fetch_new_posts(Unpinned(Feed), last_shortcode, DefaultLimit, NoError).posts_to_send

\* C14.  The feed was walked with no checkpoint and a catch-up count above
\* 0, and raised nothing.
CatchupCase ==
    /\ Walked
    /\ cyc.raised = "none"
    /\ last_shortcode = <<>>
    /\ catchup > 0

\* C14: in bootstrap mode with catch-up count N > 0 the batch is exactly
\* the first N items of the feed, all of them when the feed has fewer,
\* pinned or not, old or not.
C14_CatchupBatch ==
    CatchupCase =>
        posts_to_send = SubSeq(posts_iterator, 1, Min(catchup, Len(posts_iterator)))

C14_Witness ==
    /\ CatchupCase
    /\ pc = "sleep"
    /\ Len(posts_iterator) > catchup
    /\ Len(posts_to_send) = catchup
    /\ posts_to_send[1] \in pinned
    /\ ~CreatedWithinWindow(posts_to_send[1])

\* C15.  The feed was walked with no checkpoint and catch-up count 0, and
\* raised nothing.  A post was created between now - refresh_interval and
\* now when it is younger than refresh_interval (the age of a post is never
\* below 0; a post created within the current time unit has age 0).
FreshCase ==
    /\ Walked
    /\ cyc.raised = "none"
    /\ last_shortcode = <<>>
    /\ catchup = 0

InFreshWindow(p) == age[p] >= 0 /\ age[p] < refresh_interval

\* C15: in bootstrap mode with catch-up count 0 the batch is exactly the
\* posts of the feed created between now - refresh_interval and now.
C15_FreshWindow ==
    FreshCase => posts_to_send = SelectSeq(Feed, InFreshWindow)

\* C16: a resume walk never fails with the TypeError of comparing a naive
\* with an aware datetime, whichever kind of date the posts carry.
C16_NoTimezoneMismatch ==
    Called => exc # "TypeError"

\* C17: the shape of the loop of main.  A cycle that completes (a step
\* from the walk or from a send to a place that is neither a send nor the
\* end by an exception) is followed by the exit in single-run mode and by
\* the sleep otherwise; nothing follows the exit, so that in single-run
\* mode exactly one cycle is made; a cycle begins again only after a sleep,
\* which lasts refresh_interval; and the loop never exits by itself when
\* single-run mode is off.
Running == pc \in {"start", "send"}
Failed == pc \in {"crash", "fatal"}

C17_LoopShape ==
    [][/\ Running /\ ~Running' /\ ~Failed' => pc' = IF once THEN "exit" ELSE "sleep"
       /\ pc # "exit"
       /\ pc' = "start" /\ pc # "start" =>
              ~once /\ pc = "sleep" /\ age' = Older(refresh_interval)
       /\ ~once => pc' # "exit"]_vars

C17_Witness ==
    /\ ~once
    /\ pc = "send"
    /\ last_shortcode # <<>>
    /\ sent # {}

\* C18.  The shortcode a file carries: its tokens that are shortcodes.
IsShortcode(t) == t \in Ids
Carried(file) == SelectSeq(file.content, IsShortcode)
Loaded == pc \in {"loaded", "returned"} /\ cyc.read = "ok"

RECURSIVE IndexOf(_, _, _)
IndexOf(s, x, i) ==
    IF i > Len(s) \/ s[i] = x THEN i ELSE IndexOf(s, x, i + 1)

\* C18: a file that carries a shortcode, as bare text or in the legacy
\* JSON object, and that is read, loads as that shortcode; and the resume
\* walk that follows stops at the post of that shortcode (the posts of the
\* walk are not pinned and within the 7 days: the batch is the items
\* before that post).
C18_LegacyCheckpointKept ==
    Loaded /\ Carried(memfile) # <<>> =>
        /\ last_shortcode = Carried(memfile)
        /\ pc = "returned" =>
               posts_to_send =
                   SubSeq(posts_iterator, 1, IndexOf(posts_iterator, Carried(memfile)[1], 1) - 1)

\* C19.  The posts committed so far, newest first.  With collaborators
\* that never fail a checkpoint, once written, is never lost: a cycle that
\* loaded none is the first one to commit, and its commits are the
\* successful sends of the cycle.
FirstCommits == Walked /\ last_shortcode = <<>>
Committed == Reverse(SubSeq(notified, 1, nsent))

\* C19: after N commits the persisted list of sent posts (the shortcodes
\* the file holds) is the min(N, 100) posts committed last, newest first.
C19_SentPostsCapped ==
    FirstCommits =>
        Carried(memfile) = SubSeq(Committed, 1, Min(nsent, MemoryLimit))

\* C20 as claimed: a load that follows a save returns what was saved.
SavedThenLoaded == pc = "loaded" /\ saved # <<>>

StoppedFile == save_last_shortcode_stopped(stop.before, stop.post, stop.at)
Stopped == stop # NoStop
LoadedAfterStop ==
    /\ Stopped
    /\ Walked
    /\ cyc.read = "ok"
    /\ nsent = 0
    /\ memfile = StoppedFile

\* C21: when the process stops before, within or after the write of a
\* checkpoint, the load that follows returns the new checkpoint or the one
\* the file held before, and never that there is none when there was one.
C21_AtomicCommit ==
    LoadedAfterStop =>
        last_shortcode \in {<<stop.post>>, load_last_shortcode(stop.before, "ok")}

\* C22.  The last checkpoint write of the cycle failed, and no send has
\* failed since.
WriteFailed == lastSave \in {"open_failed", "write_failed"} /\ exc # "SendError"

\* C22: a checkpoint write that fails raises nothing and ends nothing: the
\* loop goes on with the next post of the batch, the posts are still
\* handed to the webhook oldest first, all of them once the cycle has
\* returned, and the cycle returns as any cycle does (to the sleep of the
\* polling loop, or to the exit in single-run mode).
C22_WriteFailureNotFatal ==
    WriteFailed =>
        /\ exc = "none"
        /\ pc = IF nsent < Len(posts_to_send) THEN "send" ELSE AfterCycle
        /\ notified = SubSeq(Reverse(posts_to_send), 1, nsent)
        /\ Returned => notified = Reverse(posts_to_send)

C22_Witness ==
    /\ WriteFailed
    /\ lastSave = "write_failed"
    /\ memfile.content = <<>>
    /\ pc = "send"
    /\ nsent = 1
    /\ Len(posts_to_send) = 2

\* C23.  load_last_shortcode has been called on a file that is absent, that
\* is empty or blank, or that cannot be read: open() or read() raised an
\* IOError, or the bytes of the file are no text.
LoadAttempted == pc \in {"loaded", "raised"}

NoCheckpointFile ==
    \/ ~memfile.exists
    \/ Strip(memfile.content) = <<>>
    \/ cyc.read = "IOError"
    \/ Undecodable \in Tokens(memfile)

\* C23: when the checkpoint file is absent, empty or cannot be read, the
\* load raises nothing and returns None (so that the cycle goes on, in
\* bootstrap mode).
C23_EmptyStateFallback ==
    LoadAttempted /\ NoCheckpointFile =>
        /\ pc = "loaded"
        /\ exc = "none"
        /\ last_shortcode = <<>>

\* C24.  The feed was walked with no checkpoint, in the catch-up or in the
\* fresh-window walk, and raised a transient error.
BootstrapErrorCase ==
    /\ Walked
    /\ last_shortcode = <<>>
    /\ cyc.raised \in Transient

\* C24: in bootstrap mode a transient error of the feed does not leave
\* check_for_new_posts: the cycle goes on to send what the walk gathered
\* before the error, oldest first, and returns to the loop of main.
C24_BootstrapErrorRecovered ==
    BootstrapErrorCase =>
        /\ exc \notin Transient
        /\ pc \in {"send", "sleep", "exit"} \/ exc = "SendError"
        /\ IsPrefix(notified, Reverse(posts_to_send))

\* C25.  The process was stopped after the send of stop.post and before
\* its checkpoint was written (the stop came before open()), and has been
\* started again; the owner has left the profile alone since.
StoppedBeforeWrite == Stopped /\ stop.at = "before_open"
SentBeforeStop == stop.sent \cup {stop.post}

\* C25: after such a stop no post sent before it is sent again, but the
\* post whose checkpoint the stop prevented; in particular no post sent and
\* checkpointed before the stop is sent again.
C25_BoundedDuplicates ==
    [][StoppedBeforeWrite /\ pc = "send" /\ Len(notified') > Len(notified) =>
          LET post == notified'[Len(notified')]
          IN  post \in SentBeforeStop => post = stop.post]_vars

\* C26.  The message a template gives for a post: every piece of it that is
\* a recognized placeholder is the value of that placeholder for the post,
\* every other piece is the template's.
IsRendering(content, post) ==
    /\ Len(content) = Len(template)
    /\ \A i \in 1..Len(template) :
          content[i] = IF template[i].kind = "placeholder" /\ template[i].name \in Placeholders
                         THEN Value(template[i].name, post)
                         ELSE template[i]

\* C26: with every post handed to the webhook, the first of the run and
\* the later ones, the content handed over is the configured template with
\* its placeholders replaced by the values of that post.
C26_MessagePerPost ==
    [][Len(notified') > Len(notified) =>
          IsRendering(message_content', notified'[Len(notified')])]_vars

====
